---------------------------- MODULE Spec2Model ----------------------------
(***************************************************************************)
(* Model of fluids.design_climate_ms:                                      *)
(*   geocoding.py     SimpleGeolocatorCache, geopy_cache, geopy_geolocator,*)
(*                    geocode                                              *)
(*   weather_data.py  month_average_temperature, month_average_windspeed,  *)
(*                    coldest_month, warmest_month                         *)
(*                                                                         *)
(* Three specifications share the module:                                  *)
(*   Spec         one caller: geocode and the cache operations, calls      *)
(*                taken whole, with close, process restart and store       *)
(*                failures;                                                *)
(*   SpecThreads  several threads inside geocode, one step per statement,  *)
(*                on the shared singleton connection;                      *)
(*   SpecClimate  the monthly aggregation and the extremum finders over    *)
(*                a bounded window of daily records.                       *)
(*                                                                         *)
(* Python's None is the empty tuple <<>>, a (latitude, longitude) pair is  *)
(* a 2-tuple, so that the two compare without a type clash.                *)
(***************************************************************************)
EXTENDS Integers, Sequences, FiniteSets, TLC

\* ---------------------------------------------------------------- bounds
\* Provider calls counted per address up to this many.
MaxCalls == 2
\* Number of distinct locations the provider may answer with.
NumLocations == 2

None == <<>>

\* The address strings callers ask for (keys are compared exactly).
Addresses == {"Houston, TX", "Fredericton, NB"}
\* The (latitude, longitude) pairs geopy's Nominatim.geocode may answer with;
\* it may also answer None (no match).
Locations == {<<k, 10 * k>> : k \in 1..NumLocations}

\* ------------------------------------------------------------- the store
\* A row of table geopy (address TEXT PRIMARY KEY, latitude REAL, longitude REAL).
Row(address, latitude, longitude) ==
    [address |-> address, latitude |-> latitude, longitude |-> longitude]

\* The database file: whether table geopy exists, and its committed rows.
NoFile == [schema |-> FALSE, rows |-> {}]

\* CREATE TABLE IF NOT EXISTS geopy (...); commit.
InitSchemaDropping(d) == [schema |-> TRUE, rows |-> {}]
_init_schema(d) == IF d.schema THEN d ELSE [schema |-> TRUE, rows |-> {}]

\* SELECT latitude, longitude FROM geopy WHERE address = ?; fetchone().
Select(rows, address) ==
    LET hit == {r \in rows : r.address = address}
    IN  IF hit = {} THEN None
        ELSE LET r == CHOOSE r \in hit : TRUE IN <<r.latitude, r.longitude>>

\* INSERT OR REPLACE INTO geopy VALUES (?, ?, ?); commit: the row with the same
\* primary key, if any, is deleted and the new row inserted.
InsertKeeping(rows, address, latitude, longitude) ==
    IF \E r \in rows : r.address = address THEN rows
    ELSE rows \cup {Row(address, latitude, longitude)}
InsertAlone(rows, address, latitude, longitude) ==
    {Row(address, latitude, longitude)}
InsertOrReplace(rows, address, latitude, longitude) ==
    {r \in rows : r.address # address} \cup {Row(address, latitude, longitude)}

\* DELETE FROM geopy; commit.
DeleteAll(rows) == {}

\* SELECT COUNT(*) FROM geopy.
CountRows(rows) == Cardinality(rows)


\* ------------------------------------------------------------ variables
VARIABLES
    \* --- the process and the database file (Spec, SpecThreads)
    geopy_available,   \* _GEOPY_AVAILABLE: whether `import geopy` succeeded
    geolocator,        \* _geolocator: "None" or "Nominatim"
    cacheState,        \* _geopy_cache: "None", or an instance "open" / "closed"
    disk,              \* the SQLite file at GEOLOCATOR_CACHE_PATH
    \* --- history of the run (not program state)
    calls,             \* calls[a]: provider invocations made for address a
    shadow,            \* shadow[a]: coordinates of the latest store of a that
                       \* returned since the last clear, or None
    last,              \* the last completed call and what it did
    \* --- SpecThreads
    pc,                \* pc[t]: where thread t stands in its call
    frame,             \* frame[t]: the locals of thread t's call
    connections,       \* the threads that created a SimpleGeolocatorCache
                       \* (each instance's connection belongs to its creator)
    \* --- SpecClimate
    df,                \* the fetched window of daily records
    computed           \* the last aggregation or extremum call and its outcome

geoVars == <<geopy_available, geolocator, cacheState, disk, calls, shadow, last>>
thrVars == <<pc, frame, connections>>
cliVars == <<df, computed>>
vars == <<geopy_available, geolocator, cacheState, disk, calls, shadow, last,
          pc, frame, connections, df, computed>>

\* ---------------------------------------------------- outcomes of a call
Return(v) == [kind |-> "return", value |-> v, msg |-> ""]
\* raise ImportError(_GEOPY_MISSING_MSG): the 'capability unavailable' error.
ImportError == [kind |-> "ImportError", value |-> None, msg |-> ""]
\* raise ValueError(f"Could not geocode: {address}"): the 'not found' error.
ValueError(address) == [kind |-> "ValueError", value |-> None, msg |-> address]
\* sqlite3.Error / OSError out of a cache method: the 'store unavailable' error.
StoreError == [kind |-> "StoreError", value |-> None, msg |-> ""]

\* ------------------------------------------- SimpleGeolocatorCache methods
\* Each returns [raised, value, rows]. A method raises when the connection is
\* closed (sqlite3.ProgrammingError) or when SQLite fails (`fails`, an input);
\* a statement that raised changed nothing.
cached_address(state, rows, address, fails) ==
    IF state # "open" \/ fails
    THEN [raised |-> TRUE, value |-> None, rows |-> rows]
    ELSE [raised |-> FALSE, value |-> Select(rows, address), rows |-> rows]

cache_address(state, rows, address, latitude, longitude, fails) ==
    IF state # "open" \/ fails
    THEN [raised |-> TRUE, value |-> None, rows |-> rows]
    ELSE [raised |-> FALSE, value |-> None,
          rows |-> InsertOrReplace(rows, address, latitude, longitude)]

clear(state, rows, fails) ==
    IF state # "open" \/ fails
    THEN [raised |-> TRUE, value |-> None, rows |-> rows]
    ELSE [raised |-> FALSE, value |-> None, rows |-> DeleteAll(rows)]

len(state, rows, fails) ==
    IF state # "open" \/ fails
    THEN [raised |-> TRUE, value |-> None, rows |-> rows]
    ELSE [raised |-> FALSE, value |-> <<CountRows(rows)>>, rows |-> rows]

\* close(): the connection is closed; the committed rows stay in the file.
close(d) == d

\* ------------------------------------------------------------ singletons
\* geopy_geolocator(): None without geopy, else the lazily created Nominatim.
\* Returns [geocoder, geolocator].
geopy_geolocator(avail, g) ==
    IF ~avail THEN [geocoder |-> "None", geolocator |-> g]
    ELSE [geocoder |-> "Nominatim", geolocator |-> "Nominatim"]

\* geopy_cache(): the singleton, created on first use by
\* SimpleGeolocatorCache(GEOLOCATOR_CACHE_PATH): makedirs, connect, _init_schema.
\* When the constructor raises (`openFails`) the global stays None.
\* Returns [raised, state, disk].
geopy_cache(state, d, openFails) ==
    IF state # "None" THEN [raised |-> FALSE, state |-> state, disk |-> d]
    ELSE IF openFails THEN [raised |-> TRUE, state |-> "None", disk |-> d]
    ELSE [raised |-> FALSE, state |-> "open", disk |-> _init_schema(d)]

\* --------------------------------------------------------------- geocode
\* "Try cache first": try: cache = geopy_cache(); result = cache.cached_address(address)
\* except Exception: cache = None.
\* Returns [cache, result, state, disk, failed]: cache is whether the local
\* `cache` is not None afterwards, result the cached pair or None.
TryCacheKeepingHandle(state, d, address, openFails, readFails) ==
    LET got == geopy_cache(state, d, openFails)
        rd  == cached_address(got.state, got.disk.rows, address, readFails)
    IN  IF got.raised
        THEN [cache |-> FALSE, result |-> None, state |-> got.state,
              disk |-> got.disk, failed |-> TRUE]
        ELSE [cache |-> TRUE, result |-> rd.value, state |-> got.state,
              disk |-> got.disk, failed |-> rd.raised]
TryCache(state, d, address, openFails, readFails) ==
    LET got == geopy_cache(state, d, openFails)
        rd  == cached_address(got.state, got.disk.rows, address, readFails)
    IN  IF got.raised \/ rd.raised
        THEN [cache |-> FALSE, result |-> None, state |-> got.state,
              disk |-> got.disk, failed |-> TRUE]
        ELSE [cache |-> TRUE, result |-> rd.value, state |-> got.state,
              disk |-> got.disk, failed |-> FALSE]

\* "Cache result": try: if cache is not None: cache.cache_address(...)
\* except Exception: pass.
\* Returns [attempted, failed, rows]; the exception does not leave the block.
CacheResult(cache, state, rows, address, location, writeFails) ==
    LET wr == cache_address(state, rows, address, location[1], location[2], writeFails)
    IN  IF ~cache
        THEN [attempted |-> FALSE, failed |-> FALSE, rows |-> rows]
        ELSE [attempted |-> TRUE, failed |-> wr.raised, rows |-> wr.rows]

\* What the caller gets when the provider has no match (location is None).
NotFoundAsValue(address) == Return(None)
NotFound(address) == ValueError(address)

\* Whether a cached result ends the call (if result is not None: return result).
HitFallsThrough(result) == FALSE
IsHit(result) == result # None

\* geocode(address). `answer` is what geocoder.geocode(address) would return;
\* openFails / readFails / writeFails say which cache steps raise in this call.
\* Returns the outcome, the globals and the file afterwards, and what was done:
\* provider (number of provider invocations), answer (the provider's answer, None
\* when it was not asked), readFailed, writeAttempted, writeFailed.
geocode(avail, g, state, d, address, answer, openFails, readFails, writeFails) ==
    LET idle == [outcome |-> ImportError, geolocator |-> g, state |-> state,
                 disk |-> d, provider |-> 0, answer |-> None, readFailed |-> FALSE,
                 writeAttempted |-> FALSE, writeFailed |-> FALSE]
        try  == TryCache(state, d, address, openFails, readFails)
        tried == [idle EXCEPT !.state = try.state, !.disk = try.disk,
                              !.readFailed = try.failed]
        loc  == geopy_geolocator(avail, g)
        asked == [tried EXCEPT !.geolocator = loc.geolocator, !.provider = 1,
                               !.answer = answer]
        wr   == CacheResult(try.cache, try.state, try.disk.rows, address, answer,
                            writeFails)
    IN  IF ~avail THEN idle
        ELSE IF IsHit(try.result)
        THEN [tried EXCEPT !.outcome = Return(try.result)]
        ELSE IF loc.geocoder = "None"
        THEN [tried EXCEPT !.outcome = ImportError, !.geolocator = loc.geolocator]
        ELSE IF answer = None
        THEN [asked EXCEPT !.outcome = NotFound(address)]
        ELSE [asked EXCEPT !.outcome = Return(answer),
                           !.disk = [try.disk EXCEPT !.rows = wr.rows],
                           !.writeAttempted = wr.attempted,
                           !.writeFailed = wr.failed]

\* ------------------------------------------------- Spec: one caller
NoCall == [op |-> "none", address |-> "", outcome |-> Return(None), pre |-> None,
           provider |-> 0, answer |-> None, readFailed |-> FALSE,
           writeAttempted |-> FALSE, writeFailed |-> FALSE, available |-> TRUE]

\* The parts of the state the single caller does not use.
NoThreads ==
    /\ pc = <<>>
    /\ frame = <<>>
    /\ connections = {}
NoResult == [op |-> "none", min_days |-> 0, kind |-> "none", value |-> None]
NoClimate ==
    /\ df = {}
    /\ computed = NoResult

Init ==
    /\ geopy_available \in BOOLEAN
    /\ geolocator = "None"
    /\ cacheState = "None"
    /\ disk = NoFile
    /\ calls = [a \in Addresses |-> 0]
    /\ shadow = [a \in Addresses |-> None]
    /\ last = NoCall
    /\ NoThreads
    /\ NoClimate

\* A caller runs geocode(a) to its end.
Geocode ==
    \E a \in Addresses, answer \in Locations \cup {None},
       openFails \in BOOLEAN, readFails \in BOOLEAN, writeFails \in BOOLEAN :
        LET r == geocode(geopy_available, geolocator, cacheState, disk, a, answer,
                         openFails, readFails, writeFails)
        IN  /\ calls[a] + r.provider <= MaxCalls
            \* each distinct run of the call is taken once: a step that is
            \* not reached has no failure and no answer to choose
            /\ openFails => geopy_available /\ cacheState = "None"
            /\ readFails => geopy_available /\ ~openFails /\ r.state = "open"
            /\ writeFails => r.writeAttempted /\ r.state = "open"
            /\ answer # None => r.provider = 1
            /\ geolocator' = r.geolocator
            /\ cacheState' = r.state
            /\ disk' = r.disk
            /\ calls' = [calls EXCEPT ![a] = @ + r.provider]
            /\ shadow' = IF r.writeAttempted /\ ~r.writeFailed
                         THEN [shadow EXCEPT ![a] = r.answer] ELSE shadow
            /\ last' = [op |-> "geocode", address |-> a, outcome |-> r.outcome,
                        pre |-> Select(disk.rows, a), provider |-> r.provider,
                        answer |-> r.answer, readFailed |-> r.readFailed,
                        writeAttempted |-> r.writeAttempted,
                        writeFailed |-> r.writeFailed,
                        available |-> geopy_available]
            /\ UNCHANGED <<geopy_available, thrVars, cliVars>>

\* What a direct cache call leaves in `last`.
Direct(op, a, res) ==
    [NoCall EXCEPT !.op = op, !.address = a,
                   !.outcome = IF res.raised THEN StoreError ELSE Return(res.value),
                   !.pre = Select(disk.rows, a),
                   !.available = geopy_available]

\* geopy_cache(), called by the user (or by SimpleGeolocatorCache(path) itself).
OpenCache ==
    \E openFails \in BOOLEAN :
        LET got == geopy_cache(cacheState, disk, openFails)
        IN  /\ cacheState = "None"
            /\ cacheState' = got.state
            /\ disk' = got.disk
            /\ last' = [NoCall EXCEPT !.op = "open",
                            !.outcome = IF got.raised THEN StoreError ELSE Return(None)]
            /\ UNCHANGED <<geopy_available, geolocator, calls, shadow, thrVars, cliVars>>

\* geopy_cache().cached_address(a)
CachedAddress ==
    \E a \in Addresses, fails \in BOOLEAN :
        LET res == cached_address(cacheState, disk.rows, a, fails)
        IN  /\ cacheState # "None"
            /\ fails => cacheState = "open"
            /\ last' = Direct("cached_address", a, res)
            /\ UNCHANGED <<geopy_available, geolocator, cacheState, disk, calls,
                           shadow, thrVars, cliVars>>

\* geopy_cache().cache_address(a, latitude, longitude)
CacheAddress ==
    \E a \in Addresses, loc \in Locations, fails \in BOOLEAN :
        LET res == cache_address(cacheState, disk.rows, a, loc[1], loc[2], fails)
        IN  /\ cacheState # "None"
            /\ fails => cacheState = "open"
            /\ disk' = [disk EXCEPT !.rows = res.rows]
            /\ shadow' = IF res.raised THEN shadow ELSE [shadow EXCEPT ![a] = loc]
            /\ last' = [Direct("cache_address", a, res) EXCEPT !.answer = loc]
            /\ UNCHANGED <<geopy_available, geolocator, cacheState, calls,
                           thrVars, cliVars>>

\* geopy_cache().clear()
Clear ==
    \E fails \in BOOLEAN :
        LET res == clear(cacheState, disk.rows, fails)
        IN  /\ cacheState # "None"
            /\ fails => cacheState = "open"
            /\ disk' = [disk EXCEPT !.rows = res.rows]
            /\ shadow' = IF res.raised THEN shadow ELSE [a \in Addresses |-> None]
            /\ last' = Direct("clear", "", res)
            /\ UNCHANGED <<geopy_available, geolocator, cacheState, calls,
                           thrVars, cliVars>>

\* len(geopy_cache())
Length ==
    \E fails \in BOOLEAN :
        LET res == len(cacheState, disk.rows, fails)
        IN  /\ cacheState # "None"
            /\ fails => cacheState = "open"
            /\ last' = Direct("len", "", res)
            /\ UNCHANGED <<geopy_available, geolocator, cacheState, disk, calls,
                           shadow, thrVars, cliVars>>

\* geopy_cache().close()
Close ==
    /\ cacheState = "open"
    /\ cacheState' = "closed"
    /\ disk' = close(disk)
    /\ last' = [NoCall EXCEPT !.op = "close"]
    /\ UNCHANGED <<geopy_available, geolocator, calls, shadow, thrVars, cliVars>>

\* The process ends and a new one starts: the module globals are set anew
\* (lines 17-24, 34-35), the file stays.
Restart ==
    /\ geopy_available' \in BOOLEAN
    /\ geolocator' = "None"
    /\ cacheState' = "None"
    /\ last' = [NoCall EXCEPT !.op = "restart"]
    /\ UNCHANGED <<disk, calls, shadow, thrVars, cliVars>>

Next ==
    \/ Geocode
    \/ OpenCache
    \/ CachedAddress
    \/ CacheAddress
    \/ Clear
    \/ Length
    \/ Close
    \/ Restart

Spec == Init /\ [][Next]_vars

\* =================================================== claims under Spec

\* What the provider path alone yields for the last geocode call.
ProviderOutcome ==
    IF last.answer = None THEN ValueError(last.address) ELSE Return(last.answer)

\* C1: whenever the cache holds an entry for the address (and can be opened
\* and read), geocode returns exactly the cached pair without a provider call,
\* whatever the availability of the provider; the capability-unavailable error
\* occurs only when the cache holds no entry for the address.
C1_HitIsAuthoritative ==
    last.op = "geocode" =>
        /\ (last.pre # None /\ ~last.readFailed) =>
               (last.outcome = Return(last.pre) /\ last.provider = 0)
        /\ last.outcome.kind = "ImportError" => last.pre = None

\* C2 as stated: the provider is invoked at most once per distinct address.
C2_AtMostOncePerAddress == \A a \in Addresses : calls[a] <= 1

\* C2 as amended: a geocode call invokes the provider at most once, and only
\* when the cache gave it no entry for the address (the entry is absent, or
\* opening or reading the cache failed); and a call that found a location and
\* wrote it leaves that entry in the cache, so that the next call with a
\* readable cache is a hit.
C2_ProviderOnlyWithoutEntry ==
    [][\A a \in Addresses :
          calls'[a] # calls[a] =>
              /\ calls'[a] = calls[a] + 1
              /\ last'.op = "geocode" /\ last'.address = a
              /\ Select(disk.rows, a) = None \/ last'.readFailed
              /\ (last'.writeAttempted /\ ~last'.writeFailed) =>
                     Select(disk'.rows, a) = last'.answer]_vars

\* The provider is invoked a second time for an address (after a miss).
C2_Witness ==
    /\ last.op = "geocode" /\ last.provider = 1 /\ last.pre = None
    /\ calls[last.address] = 2

\* C3: a cache failure never aborts geocode. If opening or reading the cache
\* failed, the provider is invoked, its result (or the not-found error) is the
\* outcome, and no cache write is attempted; if the cache write failed, the
\* provider's result is still returned; no store error reaches the caller.
C3_CacheFailureNeverAborts ==
    last.op = "geocode" =>
        /\ last.outcome.kind # "StoreError"
        /\ last.readFailed =>
               /\ last.provider = 1
               /\ last.outcome = ProviderOutcome
               /\ ~last.writeAttempted
        /\ last.writeFailed => last.outcome = Return(last.answer)

\* A call whose cache read failed and that returned the provider's location.
C3_Witness ==
    /\ last.op = "geocode" /\ last.readFailed
    /\ last.outcome.kind = "return" /\ last.outcome.value \in Locations

\* C7: the cache is a map from address to coordinates: on an open cache
\* cached_address(a) is the pair of the latest store of a since the last clear,
\* or None, and len() is the number of distinct addresses stored since then;
\* the cache is still open after clear.
C7_CacheIsMap ==
    /\ cacheState = "open" =>
          /\ \A a \in Addresses :
                LET rd == cached_address(cacheState, disk.rows, a, FALSE)
                IN  ~rd.raised /\ rd.value = shadow[a]
          /\ len(cacheState, disk.rows, FALSE).value =
                 <<Cardinality({a \in Addresses : shadow[a] # None})>>
    /\ (last.op = "cached_address" /\ last.outcome.kind = "return") =>
           last.outcome.value = shadow[last.address]
    /\ (last.op = "len" /\ last.outcome.kind = "return") =>
           last.outcome.value = <<Cardinality({a \in Addresses : shadow[a] # None})>>
    /\ (last.op = "clear" /\ last.outcome.kind = "return") =>
           (cacheState = "open" /\ disk.rows = {})

\* A store that overwrote an entry holding other coordinates.
C7_Witness ==
    /\ last.op = "cache_address" /\ last.outcome.kind = "return"
    /\ last.pre # None /\ last.pre # last.answer
    /\ shadow[last.address] = last.answer
    /\ Cardinality(disk.rows) = 1

\* C8: entries survive close and restart: every entry stored by a call that
\* returned is in the file whatever the state of the process, and opening the
\* cache again (directory and table creation) leaves the rows as they were
\* (a geocode call that opens the cache may then replace the row of its own
\* address).
C8_SurvivesRestart ==
    /\ [](\A a \in Addresses : shadow[a] # None => Select(disk.rows, a) = shadow[a])
    /\ [][(cacheState # "open" /\ cacheState' = "open") =>
              /\ disk'.schema
              /\ \A r \in disk.rows :
                    \/ r \in disk'.rows
                    \/ last'.op = "geocode" /\ last'.writeAttempted
                                            /\ r.address = last'.address
              /\ last'.op = "open" => disk'.rows = disk.rows]_vars

\* A new process has opened the file and reads an entry stored before.
C8_Witness ==
    /\ last.op = "open" /\ last.outcome.kind = "return" /\ cacheState = "open"
    /\ \E a \in Addresses : shadow[a] # None /\ Select(disk.rows, a) = shadow[a]

\* C9: when the cache holds no entry for the address, geocode ends in exactly
\* one of: the provider's pair returned; ValueError carrying the address (no
\* match); ImportError (geopy not installed), a different kind of error.
C9_MissOutcomes ==
    (last.op = "geocode" /\ last.pre = None) =>
        \/ /\ last.available /\ last.provider = 1 /\ last.answer \in Locations
           /\ last.outcome = Return(last.answer)
        \/ /\ last.available /\ last.provider = 1 /\ last.answer = None
           /\ last.outcome.kind = "ValueError" /\ last.outcome.msg = last.address
        \/ /\ ~last.available /\ last.provider = 0
           /\ last.outcome.kind = "ImportError"

\* A miss that ended in 'not found'.
C9_Witness ==
    /\ last.op = "geocode" /\ last.pre = None
    /\ last.outcome = ValueError(last.address)

\* The entries of the cache for address a / for the other addresses.
EntriesFor(rows, a) == {r \in rows : r.address = a}
EntriesNotFor(rows, a) == {r \in rows : r.address # a}

\* C13: a geocode call never adds or alters an entry of another address; it
\* changes the cache only after the provider returned a location in this call,
\* which it returns, and then the address's entry is exactly that location; a
\* call that ends in a cache hit, in 'not found' or in 'capability unavailable'
\* leaves every entry unchanged.
C13_GeocodeFrame ==
    [][last'.op = "geocode" =>
          LET a == last'.address
          IN  /\ EntriesNotFor(disk'.rows, a) = EntriesNotFor(disk.rows, a)
              /\ disk'.rows # disk.rows =>
                    /\ last'.provider = 1
                    /\ last'.answer \in Locations
                    /\ last'.outcome = Return(last'.answer)
                    /\ EntriesFor(disk'.rows, a) =
                           {Row(a, last'.answer[1], last'.answer[2])}
              /\ (\/ last'.outcome.kind \in {"ImportError", "ValueError"}
                  \/ last'.provider = 0) =>
                    disk'.rows = disk.rows]_vars

\* A miss wrote the provider's location for its address while the cache holds
\* an entry of another address.
C13_Witness ==
    /\ last.op = "geocode" /\ last.writeAttempted /\ ~last.writeFailed
    /\ last.pre = None /\ last.answer \in Locations
    /\ Select(disk.rows, last.address) = last.answer
    /\ EntriesNotFor(disk.rows, last.address) # {}

\* ============================================ SpecThreads: several callers
\* Threads of one process call geocode and the cache methods of the singleton.
\* A thread takes one step per statement; while a statement runs on a
\* connection (pc = "exec") sqlite3 has released the interpreter lock and the
\* other threads run. Here cacheState is "None" or the name of the thread whose
\* instance the global _geopy_cache refers to.
Threads == {"t1", "t2"}
Tasks == {"geocode", "cached_address", "cache_address", "clear", "len"}

NoOutcome == [kind |-> "none", value |-> None, msg |-> ""]
\* task: what the thread was asked to do; phase: the cache method it is in
\* ("read" and "write" are geocode's two); cache: the local `cache`, None or
\* <<owner of the instance>>; refused: a statement of this call was refused by
\* the connection's thread check; asked: the provider was invoked in this call;
\* overlaps (history): this geocode call and the call now in the other thread's
\* frame, a geocode for the same address, were in progress at the same time.
NoFrame == [task |-> "none", phase |-> "none", address |-> "", cache |-> None,
            location |-> None, outcome |-> NoOutcome, refused |-> FALSE,
            asked |-> FALSE, overlaps |-> FALSE]

\* Thread u is inside geocode(a): called, outcome not yet determined.
InGeocode(u, a) ==
    /\ pc[u] \notin {"idle", "done"}
    /\ frame[u].task = "geocode" /\ frame[u].address = a

\* sqlite3.connect(file_path) leaves check_same_thread at its default, True:
\* a connection used from a thread other than its creator raises
\* sqlite3.ProgrammingError before the statement touches the database.
check_same_thread == TRUE
ThreadMayUseAny(owner, t) == TRUE
ThreadMayUse(owner, t) == check_same_thread => owner = t

InitThreads ==
    /\ geopy_available \in BOOLEAN
    /\ geolocator = "None"
    /\ cacheState = "None"
    /\ disk = NoFile
    /\ calls = [a \in Addresses |-> 0]
    /\ shadow = [a \in Addresses |-> None]
    /\ last = NoCall
    /\ pc = [t \in Threads |-> "idle"]
    /\ frame = [t \in Threads |-> NoFrame]
    /\ connections = {}
    /\ NoClimate

Finish(t, outcome) ==
    /\ pc' = [pc EXCEPT ![t] = "done"]
    /\ frame' = [frame EXCEPT ![t].outcome = outcome, ![t].phase = "none"]

\* A caller enters geocode(a) or, through geopy_cache(), a cache method.
\* geocode raises ImportError at once without geopy (lines 174-175).
T_Call(t) ==
    /\ pc[t] = "idle"
    /\ \E task \in Tasks, a \in Addresses, loc \in Locations :
          LET f == [NoFrame EXCEPT
                      !.task = task,
                      !.phase = IF task = "geocode" THEN "read" ELSE task,
                      !.address = IF task \in {"clear", "len"} THEN "" ELSE a,
                      !.location = IF task = "cache_address" THEN loc ELSE None,
                      !.overlaps = /\ task = "geocode"
                                   /\ \E u \in Threads \ {t} : InGeocode(u, a)]
              \* the frames the other threads hold no longer overlap with the
              \* call this thread has left
              others == [u \in Threads |-> [frame[u] EXCEPT !.overlaps = FALSE]]
          IN  IF task = "geocode" /\ ~geopy_available
              THEN /\ pc' = [pc EXCEPT ![t] = "done"]
                   /\ frame' = [others EXCEPT ![t] =
                                   [f EXCEPT !.outcome = ImportError, !.phase = "none",
                                             !.overlaps = FALSE]]
              ELSE /\ pc' = [pc EXCEPT ![t] = "cache_check"]
                   /\ frame' = [others EXCEPT ![t] = f]
    /\ UNCHANGED <<geoVars, connections, cliVars>>

\* geopy_cache(): if _geopy_cache is None (line 138)
T_CacheCheck(t) ==
    /\ pc[t] = "cache_check"
    /\ pc' = [pc EXCEPT ![t] = IF cacheState = "None" THEN "construct"
                                                      ELSE "return_cache"]
    /\ UNCHANGED <<geoVars, frame, connections, cliVars>>

\* SimpleGeolocatorCache(GEOLOCATOR_CACHE_PATH): connect and _init_schema, in
\* the constructing thread (lines 62-69)
T_Construct(t) ==
    /\ pc[t] = "construct"
    /\ connections' = connections \cup {t}
    /\ disk' = _init_schema(disk)
    /\ pc' = [pc EXCEPT ![t] = "assign"]
    /\ UNCHANGED <<geopy_available, geolocator, cacheState, calls, shadow, last,
                   frame, cliVars>>

\* _geopy_cache = <the new instance> (line 139)
T_Assign(t) ==
    /\ pc[t] = "assign"
    /\ cacheState' = t
    /\ pc' = [pc EXCEPT ![t] = "return_cache"]
    /\ UNCHANGED <<geopy_available, geolocator, disk, calls, shadow, last,
                   frame, connections, cliVars>>

\* return _geopy_cache (line 141): the global as it is now
T_ReturnCache(t) ==
    /\ pc[t] = "return_cache"
    /\ frame' = [frame EXCEPT ![t].cache = <<cacheState>>]
    /\ pc' = [pc EXCEPT ![t] = "begin"]
    /\ UNCHANGED <<geoVars, connections, cliVars>>

\* cursor = self.connection.cursor(): the thread check. When it passes the
\* statement starts; when it raises, geocode's read handler sets cache = None
\* and goes on to the provider, its write handler passes, and a cache method
\* called directly raises to its caller.
T_Begin(t) ==
    /\ pc[t] = "begin"
    /\ IF ThreadMayUse(frame[t].cache[1], t)
       THEN /\ pc' = [pc EXCEPT ![t] = "exec"]
            /\ frame' = frame
       ELSE CASE frame[t].phase = "read" ->
                   /\ pc' = [pc EXCEPT ![t] = "provider"]
                   /\ frame' = [frame EXCEPT ![t].cache = None, ![t].refused = TRUE]
              [] frame[t].phase = "write" ->
                   /\ pc' = [pc EXCEPT ![t] = "done"]
                   /\ frame' = [frame EXCEPT ![t].refused = TRUE,
                                             ![t].outcome = Return(frame[t].location),
                                             ![t].phase = "none"]
              [] OTHER ->
                   /\ pc' = [pc EXCEPT ![t] = "done"]
                   /\ frame' = [frame EXCEPT ![t].refused = TRUE,
                                             ![t].outcome = StoreError,
                                             ![t].phase = "none"]
    /\ UNCHANGED <<geoVars, connections, cliVars>>

\* The statement (and its commit) completes on the connection.
T_Exec(t) ==
    /\ pc[t] = "exec"
    /\ LET f == frame[t]
           rd == cached_address("open", disk.rows, f.address, FALSE)
           wr == cache_address("open", disk.rows, f.address, f.location[1],
                               f.location[2], FALSE)
       IN  CASE f.phase = "read" ->
                  /\ disk' = disk
                  /\ shadow' = shadow
                  /\ IF IsHit(rd.value)
                     THEN Finish(t, Return(rd.value))
                     ELSE /\ pc' = [pc EXCEPT ![t] = "provider"]
                          /\ frame' = frame
             [] f.phase = "write" ->
                  /\ disk' = [disk EXCEPT !.rows = wr.rows]
                  /\ shadow' = [shadow EXCEPT ![f.address] = f.location]
                  /\ Finish(t, Return(f.location))
             [] f.phase = "cached_address" ->
                  /\ disk' = disk
                  /\ shadow' = shadow
                  /\ Finish(t, Return(rd.value))
             [] f.phase = "cache_address" ->
                  /\ disk' = [disk EXCEPT !.rows = wr.rows]
                  /\ shadow' = [shadow EXCEPT ![f.address] = f.location]
                  /\ Finish(t, Return(None))
             [] f.phase = "clear" ->
                  /\ disk' = [disk EXCEPT !.rows = clear("open", disk.rows, FALSE).rows]
                  /\ shadow' = [a \in Addresses |-> None]
                  /\ Finish(t, Return(None))
             [] f.phase = "len" ->
                  /\ disk' = disk
                  /\ shadow' = shadow
                  /\ Finish(t, Return(len("open", disk.rows, FALSE).value))
    /\ UNCHANGED <<geopy_available, geolocator, cacheState, calls, last,
                   connections, cliVars>>

\* geocoder = geopy_geolocator(); location = geocoder.geocode(address)
\* (lines 187-195), then on to the cache write, if cache is not None.
T_Provider(t) ==
    /\ pc[t] = "provider"
    /\ \E answer \in Locations \cup {None} :
          /\ geolocator' = geopy_geolocator(geopy_available, geolocator).geolocator
          /\ IF answer = None
             THEN /\ pc' = [pc EXCEPT ![t] = "done"]
                  /\ frame' = [frame EXCEPT ![t].asked = TRUE, ![t].phase = "none",
                                  ![t].outcome = NotFound(frame[t].address)]
             ELSE IF frame[t].cache = None
             THEN /\ pc' = [pc EXCEPT ![t] = "done"]
                  /\ frame' = [frame EXCEPT ![t].asked = TRUE, ![t].phase = "none",
                                  ![t].location = answer,
                                  ![t].outcome = Return(answer)]
             ELSE /\ pc' = [pc EXCEPT ![t] = "begin"]
                  /\ frame' = [frame EXCEPT ![t].asked = TRUE, ![t].phase = "write",
                                  ![t].location = answer]
    /\ UNCHANGED <<geopy_available, cacheState, disk, calls, shadow, last,
                   connections, cliVars>>

\* The call is over; the caller has its outcome.
T_Return(t) ==
    /\ pc[t] = "done"
    /\ pc' = [pc EXCEPT ![t] = "idle"]
    /\ frame' = [frame EXCEPT ![t] = NoFrame]
    /\ UNCHANGED <<geoVars, connections, cliVars>>

\* The thread that started the others (the main thread) called geopy_cache()
\* before them: the instance and its connection are its own (lines 138-141,
\* 62-69). It takes no further part.
MainThread == "main"
T_MainGeopyCache ==
    /\ cacheState = "None"
    /\ \A t \in Threads : pc[t] = "idle"
    /\ cacheState' = MainThread
    /\ connections' = connections \cup {MainThread}
    /\ disk' = _init_schema(disk)
    /\ UNCHANGED <<geopy_available, geolocator, calls, shadow, last, pc, frame,
                   cliVars>>

NextThreads ==
    \/ T_MainGeopyCache
    \/ \E t \in Threads :
        \/ T_Call(t)
        \/ T_CacheCheck(t)
        \/ T_Construct(t)
        \/ T_Assign(t)
        \/ T_ReturnCache(t)
        \/ T_Begin(t)
        \/ T_Exec(t)
        \/ T_Provider(t)
        \/ T_Return(t)

SpecThreads == InitThreads /\ [][NextThreads]_vars

\* ============================================ claims under SpecThreads

\* C10: no two cache operations are in progress at the same time on one
\* connection: two threads that are both inside a statement hold different
\* connections, and a thread inside a statement is the creator of its
\* connection.
C10_Serialized ==
    /\ \A t1 \in Threads, t2 \in Threads :
          (t1 # t2 /\ pc[t1] = "exec" /\ pc[t2] = "exec") =>
              frame[t1].cache # frame[t2].cache
    /\ \A t \in Threads : pc[t] = "exec" => frame[t].cache = <<t>>

\* One thread is inside a statement on the singleton's connection while
\* another thread, holding the same instance, was refused by the thread check.
C10_Witness ==
    \E t1 \in Threads, t2 \in Threads :
        /\ t1 # t2
        /\ pc[t1] = "exec" /\ frame[t1].cache = <<cacheState>>
        /\ pc[t2] # "idle" /\ frame[t2].refused

\* Two geocode calls for one address that ran at the same time, both missed
\* the cache, and both got a location from the provider; neither has yet
\* handed its outcome to its caller.
BothMissed(t1, t2) ==
    /\ t1 # t2
    /\ pc[t1] = "done" /\ pc[t2] = "done"
    /\ frame[t1].task = "geocode" /\ frame[t2].task = "geocode"
    /\ frame[t1].address = frame[t2].address
    /\ frame[t1].overlaps \/ frame[t2].overlaps
    /\ frame[t1].asked /\ frame[t2].asked
    /\ frame[t1].location # None /\ frame[t2].location # None

\* C11: after two concurrent geocode calls for one address that both missed,
\* both have returned the provider's result, and the cache holds exactly one
\* entry for the address, a whole (latitude, longitude) pair, the one written
\* last.
C11_BothReturnOneEntry ==
    \A t1 \in Threads, t2 \in Threads :
        BothMissed(t1, t2) =>
            LET a == frame[t1].address
            IN  /\ frame[t1].outcome = Return(frame[t1].location)
                /\ frame[t2].outcome = Return(frame[t2].location)
                /\ Cardinality({r \in disk.rows : r.address = a}) = 1
                /\ Select(disk.rows, a) \in Locations
                /\ Select(disk.rows, a) = shadow[a]

\* ================================== SpecClimate: the monthly aggregation
\* ---------------------------------------------------------------- bounds
\* Daily records in the fetched window.
MaxRows == 3
\* min_days ranges over 1..MaxMinDays.
MaxMinDays == 2

\* The window: start_year..end_year, and the months and days records fall on.
Years == {2019, 2020}
DataMonths == {1, 7}
Days == {1, 2}
\* A float is an exact fraction <<numerator, denominator>> in lowest terms;
\* NaN (pandas' missing value in a float column) is <<0, 0>>.
NaN == <<0, 0>>
\* Temperatures and wind speeds a record may hold.
TempReadings == {<<0, 1>>, <<2, 1>>}
WindReadings == {<<1, 1>>}

RECURSIVE GCD(_, _)
GCD(a, b) == IF b = 0 THEN a ELSE GCD(b, a % b)
Frac(n, d) == LET g == GCD(n, d) IN <<n \div g, d \div g>>
FracAdd(x, y) == Frac(x[1] * y[2] + y[1] * x[2], x[2] * y[2])
\* x < y and x > y on floats: every comparison with NaN is False.
Less(x, y) == x # NaN /\ y # NaN /\ x[1] * y[2] < y[1] * x[2]
Greater(x, y) == Less(y, x)

\* A daily record: the date and the two fields, each a reading or NaN.
Field(r, field) == IF field = "temp" THEN r.temp ELSE r.wspd

RECURSIVE SumField(_, _)
SumField(rows, field) ==
    IF rows = {} THEN <<0, 1>>
    ELSE LET r == CHOOSE r \in rows : TRUE
         IN  FracAdd(Field(r, field), SumField(rows \ {r}, field))

\* df.groupby(['year', 'month']): the keys that have at least one record.
GroupKeys(rows) == {<<r.year, r.month>> : r \in rows}
Group(rows, key) == {r \in rows : r.year = key[1] /\ r.month = key[2]}

\* count=(field, 'count'): the records of the group whose field is not NaN.
CountAllRecords(rows, key, field) == Cardinality(Group(rows, key))
GroupCount(rows, key, field) ==
    Cardinality({r \in Group(rows, key) : Field(r, field) # NaN})

\* mean=(field, 'mean'): the mean over the records whose field is not NaN,
\* NaN when there is none.
GroupMean(rows, key, field) ==
    LET present == {r \in Group(rows, key) : Field(r, field) # NaN}
    IN  IF present = {} THEN NaN
        ELSE LET total == SumField(present, field)
             IN  Frac(total[1], total[2] * Cardinality(present))

\* grouped.loc[grouped['count'] < min_days, mean] = pd.NA: in the float column
\* the masked mean becomes NaN.
MaskedMean(rows, key, field, min_days) ==
    IF GroupCount(rows, key, field) < min_days THEN NaN
    ELSE GroupMean(rows, key, field)

RECURSIVE FracSum(_, _)
FracSum(keys, mean) ==
    IF keys = {} THEN <<0, 1>>
    ELSE LET k == CHOOSE k \in keys : TRUE
         IN  FracAdd(mean[k], FracSum(keys \ {k}, mean))

\* grouped.groupby('month')[mean].mean(): for each month that has a group, the
\* mean of the groups' means that are not NaN, NaN when all are.
MonthMean(rows, month, field, min_days) ==
    LET keys == {k \in GroupKeys(rows) : k[2] = month}
        mean == [k \in keys |-> MaskedMean(rows, k, field, min_days)]
        kept == {k \in keys : mean[k] # NaN}
        total == FracSum(kept, mean)
    IN  IF kept = {} THEN NaN
        ELSE Frac(total[1], total[2] * Cardinality(kept))

\* [monthly.get(m) for m in range(1, 13)]: the month's entry, None for a month
\* that is no key of the series; and [None] * 12 for an empty frame.
Get(rows, month, field, min_days) ==
    IF month \in {k[2] : k \in GroupKeys(rows)}
    THEN MonthMean(rows, month, field, min_days)
    ELSE None

month_average(rows, field, min_days) ==
    IF rows = {} THEN [m \in 1..12 |-> None]
    ELSE [m \in 1..12 |-> Get(rows, m, field, min_days)]

month_average_temperature(rows, min_days) == month_average(rows, "temp", min_days)
month_average_windspeed(rows, min_days) == month_average(rows, "wspd", min_days)

\* valid = [(i, t) for i, t in enumerate(temps) if t is not None]
Valid(temps) ==
    LET F[m \in 0..12] ==
            IF m = 0 THEN <<>>
            ELSE IF temps[m] # None THEN Append(F[m - 1], <<m - 1, temps[m]>>)
            ELSE F[m - 1]
    IN  F[12]

\* min(valid, key=lambda x: x[1]) / max(...): the scan keeps the first item
\* and replaces it by a later one whose key compares less (greater).
Min(valid) ==
    LET F[n \in 1..Len(valid)] ==
            IF n = 1 THEN valid[1]
            ELSE IF Less(valid[n][2], F[n - 1][2]) THEN valid[n] ELSE F[n - 1]
    IN  F[Len(valid)]
Max(valid) ==
    LET F[n \in 1..Len(valid)] ==
            IF n = 1 THEN valid[1]
            ELSE IF Greater(valid[n][2], F[n - 1][2]) THEN valid[n] ELSE F[n - 1]
    IN  F[Len(valid)]

\* coldest_month / warmest_month: [kind, value].
coldest_month(rows, min_days) ==
    LET valid == Valid(month_average_temperature(rows, min_days))
    IN  IF valid = <<>> THEN [kind |-> "ValueError", value |-> None]
        ELSE [kind |-> "return", value |-> Min(valid)]
warmest_month(rows, min_days) ==
    LET valid == Valid(month_average_temperature(rows, min_days))
    IN  IF valid = <<>> THEN [kind |-> "ValueError", value |-> None]
        ELSE [kind |-> "return", value |-> Max(valid)]

InitClimate ==
    /\ geopy_available = TRUE
    /\ geolocator = "None"
    /\ cacheState = "None"
    /\ disk = NoFile
    /\ calls = [a \in Addresses |-> 0]
    /\ shadow = [a \in Addresses |-> None]
    /\ last = NoCall
    /\ NoThreads
    /\ df = {}
    /\ computed = NoResult

\* The station data provider delivers one more daily record of the window
\* (one record per date).
FetchRow ==
    /\ computed.op = "none"
    /\ Cardinality(df) < MaxRows
    /\ \E y \in Years, m \in DataMonths, d \in Days,
          temp \in TempReadings \cup {NaN}, wspd \in WindReadings \cup {NaN} :
          /\ ~\E r \in df : r.year = y /\ r.month = m /\ r.day = d
          /\ df' = df \cup {[year |-> y, month |-> m, day |-> d,
                             temp |-> temp, wspd |-> wspd]}
    /\ UNCHANGED <<geoVars, thrVars, computed>>

\* A caller runs one of the four functions on the fetched window.
MonthAverageTemperature ==
    /\ computed.op = "none"
    /\ \E min_days \in 1..MaxMinDays :
          computed' = [op |-> "month_average_temperature", min_days |-> min_days,
                     kind |-> "return",
                     value |-> month_average_temperature(df, min_days)]
    /\ UNCHANGED <<geoVars, thrVars, df>>

MonthAverageWindspeed ==
    /\ computed.op = "none"
    /\ \E min_days \in 1..MaxMinDays :
          computed' = [op |-> "month_average_windspeed", min_days |-> min_days,
                     kind |-> "return",
                     value |-> month_average_windspeed(df, min_days)]
    /\ UNCHANGED <<geoVars, thrVars, df>>

ColdestMonth ==
    /\ computed.op = "none"
    /\ \E min_days \in 1..MaxMinDays :
          LET r == coldest_month(df, min_days)
          IN  computed' = [op |-> "coldest_month", min_days |-> min_days,
                         kind |-> r.kind, value |-> r.value]
    /\ UNCHANGED <<geoVars, thrVars, df>>

WarmestMonth ==
    /\ computed.op = "none"
    /\ \E min_days \in 1..MaxMinDays :
          LET r == warmest_month(df, min_days)
          IN  computed' = [op |-> "warmest_month", min_days |-> min_days,
                         kind |-> r.kind, value |-> r.value]
    /\ UNCHANGED <<geoVars, thrVars, df>>

NextClimate ==
    \/ FetchRow
    \/ MonthAverageTemperature
    \/ MonthAverageWindspeed
    \/ ColdestMonth
    \/ WarmestMonth

SpecClimate == InitClimate /\ [][NextClimate]_vars

\* ============================================ claims under SpecClimate

\* The field a call aggregates.
FieldOf(op) == IF op = "month_average_windspeed" THEN "wspd" ELSE "temp"

\* The records of (year, month) in which the field is present.
ValidRecords(year, month, field) ==
    {r \in df : r.year = year /\ r.month = month /\ Field(r, field) # NaN}

\* The years whose group for the month reaches min_days valid samples.
Qualifying(month, field, min_days) ==
    {y \in Years : Cardinality(ValidRecords(y, month, field)) >= min_days}

\* C4: coldest_month and warmest_month fail with the 'no valid data' error
\* whenever no (year, month) group of the window reaches min_days valid
\* temperature samples, also when records exist but every group is below the
\* threshold.
C4_NoValidDataRaises ==
    (/\ computed.op \in {"coldest_month", "warmest_month"}
     /\ \A m \in 1..12 : Qualifying(m, "temp", computed.min_days) = {}) =>
        computed.kind = "ValueError"

\* C5: a month in which every year of the window has fewer than min_days
\* records with the field present is None in the profile returned by
\* month_average_temperature and month_average_windspeed.
C5_BelowThresholdIsNone ==
    computed.op \in {"month_average_temperature", "month_average_windspeed"} =>
        \A m \in 1..12 :
            Qualifying(m, FieldOf(computed.op), computed.min_days) = {} =>
                computed.value[m] = None

\* The mean of the field over the valid records of (year, month).
YearMean(year, month, field) ==
    LET present == ValidRecords(year, month, field)
        total == SumField(present, field)
    IN  Frac(total[1], total[2] * Cardinality(present))

\* The unweighted mean of the qualifying years' means.
MeanOfYearMeans(month, field, min_days) ==
    LET years == Qualifying(month, field, min_days)
        total == FracSum(years, [y \in years |-> YearMean(y, month, field)])
    IN  Frac(total[1], total[2] * Cardinality(years))

\* C6: each set entry of the profile (a number: neither None nor NaN) is the
\* unweighted mean of the per-(year, month) means over exactly the years whose
\* group reached min_days valid samples, of which there is at least one.
C6_MeanOfQualifyingYearMeans ==
    computed.op \in {"month_average_temperature", "month_average_windspeed"} =>
        \A m \in 1..12 :
            computed.value[m] \notin {None, NaN} =>
                /\ Qualifying(m, FieldOf(computed.op), computed.min_days) # {}
                /\ computed.value[m] =
                       MeanOfYearMeans(m, FieldOf(computed.op), computed.min_days)

\* January has 2 valid days in 2019 and 1 in 2020, with another mean; at
\* min_days = 2 the January entry is 2019's mean alone.
C6_Witness ==
    /\ computed.op = "month_average_temperature" /\ computed.min_days = 2
    /\ Cardinality(ValidRecords(2019, 1, "temp")) = 2
    /\ Cardinality(ValidRecords(2020, 1, "temp")) = 1
    /\ YearMean(2019, 1, "temp") # YearMean(2020, 1, "temp")
    /\ computed.value[1] = YearMean(2019, 1, "temp")

\* The months whose profile entry is set: it holds a number.
SetMonths(profile) == {m \in 1..12 : profile[m] \notin {None, NaN}}

\* C12: when the temperature profile has a set entry, coldest_month returns
\* (i, v) with i the smallest 0-based index among the set entries that hold the
\* minimum set value and v the profile's value at i, and warmest_month does the
\* same for the maximum; an unset entry is never returned.
C12_FirstExtremum ==
    computed.op \in {"coldest_month", "warmest_month"} =>
        LET profile == month_average_temperature(df, computed.min_days)
            set == SetMonths(profile)
        IN  set # {} =>
                /\ computed.kind = "return"
                /\ computed.value[1] + 1 \in set
                /\ computed.value[2] = profile[computed.value[1] + 1]
                /\ \A m \in set :
                      IF computed.op = "coldest_month"
                      THEN /\ ~Less(profile[m], computed.value[2])
                           /\ m < computed.value[1] + 1 =>
                                  Less(computed.value[2], profile[m])
                      ELSE /\ ~Greater(profile[m], computed.value[2])
                           /\ m < computed.value[1] + 1 =>
                                  Greater(computed.value[2], profile[m])
=============================================================================
